---- MODULE Spec2Model ----
(***************************************************************************)
(* Two-phase non-maximum suppression of d3d/box/nms_cuda.cu.               *)
(*                                                                         *)
(* nms2d_cuda filters the shapes by score, sorts the survivors by          *)
(* descending score, launches nms2d_iou_kernel on a grid of                *)
(* nblocks x nblocks thread blocks of FLAG_WIDTH threads, and then         *)
(* nms_collect_kernel on a single thread.                                  *)
(*                                                                         *)
(* Representation                                                          *)
(*  - tensors are functions over 0..n-1;                                   *)
(*  - a bitvec_t word is the set of its set bit positions, a subset of     *)
(*    0..FLAG_WIDTH-1 (x | 1ULL << k is x \cup {k}, x & 1ULL << k is       *)
(*    k \in x);                                                            *)
(*  - scalar_t values are fixed-point numbers in hundredths (One = 1.0);   *)
(*  - the geometry of a shape is its identity, and the IoU capability of   *)
(*    d3d/box/utils.cuh is an arbitrary symmetric table over identities;   *)
(*  - scores and parameters are finite numbers (no NaN, no infinity);      *)
(*  - the tile width is scaled down from 64 (FLAG_BITS = 6) so that a run  *)
(*    with several tiles stays small.                                      *)
(***************************************************************************)
EXTENDS Integers, FiniteSets, Sequences, TLC

\* ---------------------------------------------------------------- bounds

\* largest number N of input shapes
MaxN == 3
\* largest N of the grid specification (several full tiles)
GridMaxN == 4
\* log2 of the tile width (6 in the source, scaled down)
FLAG_BITS == 1

ScoreVals == {-50, 50, 100}
ScoreThreshVals == {-100, 50}
\* IoU of a pair: at the threshold or above it; the grid also has IoU 0
IouVals == {50, 90}
GridIouVals == {0, 50, 90}
IouThreshVals == {50}
\* suppression_param: 1 (Scenario 3); the grid also has 2
ParamVals == {1}
GridParamVals == {1, 2}
Modes == {"HARD", "LINEAR", "GAUSSIAN"}

\* ------------------------------------------------------------- constants

FLAG_WIDTH == 2 ^ FLAG_BITS

\* scalar_t 1.0 in hundredths
One == 10 * 10

divup(a, b) == (a + b - 1) \div b

min(a, b) == IF a < b THEN a ELSE b

\* ------------------------------------------------------------ arithmetic

\* scalar_t product of two fixed-point values
Mul(a, b) == (a * b) \div One

\* pow(iou, p) for the exponents of ParamVals
RECURSIVE pow(_, _)
pow(x, p) == IF p = 0 THEN One ELSE Mul(x, pow(x, p - 1))

\* exp(-x) for 0 <= x <= 1.0: Horner evaluation of the series to 8 terms
RECURSIVE ExpHorner(_, _)
ExpHorner(x, k) ==
    IF k > 8 THEN One ELSE One - (x * ExpHorner(x, k + 1)) \div (k * One)

exp_neg(x) == ExpHorner(x, 1)

\* the decay factor multiplied into a coefficient cell (switch, lines 56-64)
LinearDecay(iou, p) == One - pow(iou, p)

GaussianDecay(iou, p) == exp_neg(Mul(iou, iou) \div p)

DecayFactor(sup, iou, p) ==
    IF sup = "LINEAR" THEN LinearDecay(iou, p) ELSE GaussianDecay(iou, p)

\* ---------------------------------------------------------------- state

VARIABLES
    boxes,            \* input: shape identities, one per input index
    scores,           \* input: score per input index
    geom,             \* input: IoU of every pair of shape identities
    supression_type,
    iou_threshold,
    score_threshold,
    supression_param,
    pc,               \* "call", "iou", "collect", "done"
    boxes_masked,     \* boxes.index({score_mask})
    scores_masked,    \* scores.index({score_mask}); scores_ of the collect kernel
    order,            \* scores_masked.argsort(-1, true)
    suppressed,       \* the returned tensor
    mask,             \* mask[idx][col]: a word
    iou_coeffs,       \* iou_coeffs[r][c]; empty in HARD mode
    remv,             \* remv[col]: a word
    blocksDone,       \* thread blocks <<blockIdx.y, blockIdx.x>> that finished
    ci,               \* loop variable i of nms_collect_kernel
    round,            \* 1 for the first call, 2 for a second call by the caller
    memo,             \* what the caller remembers of the first call
    cur,              \* the thread block whose threads are running, or NoBlock
    tpc,              \* position of each thread of cur in nms2d_iou_kernel
    block_slots,      \* __shared__ block_boxes of cur
    ti,               \* loop variable i of each thread of cur
    tflag             \* flag of each thread of cur

inputs == <<boxes, scores, geom, supression_type, iou_threshold,
            score_threshold, supression_param>>

tensors == <<boxes_masked, scores_masked, order, suppressed, mask, iou_coeffs,
             remv>>

\* the threads of one block (the thread-level specification only)
threads == <<cur, tpc, block_slots, ti, tflag>>

vars == <<boxes, scores, geom, supression_type, iou_threshold,
          score_threshold, supression_param, pc, boxes_masked, scores_masked,
          order, suppressed, mask, iou_coeffs, remv, blocksDone, ci, round,
          memo, cur, tpc, block_slots, ti, tflag>>

\* ------------------------------------------------------------- helpers

Size(t) == Cardinality(DOMAIN t)

Range(n) == 0 .. (n - 1)

Word == SUBSET Range(FLAG_WIDTH)

\* torch::zeros of one and of two dimensions
Zeros1(n, z) == [a \in Range(n) |-> z]

Zeros2(n, m, z) == [a \in Range(n) |-> [b \in Range(m) |-> z]]

\* unordered pairs of distinct shape identities
Pairs(ids) == {pr \in SUBSET ids : Cardinality(pr) = 2}

\* t.index({m}): the entries of t selected by the boolean tensor m, in order
Index(t, m) ==
    LET sel == {k \in DOMAIN m : m[k]}
        rank(k) == Cardinality({l \in sel : l < k})
    IN  [r \in Range(Cardinality(sel)) |-> t[CHOOSE k \in sel : rank(k) = r]]

\* s.argsort(-1, true): the index tensors that sort s in descending order
\* (the order of equal elements is not determined)
Argsort(s) ==
    {p \in [DOMAIN s -> DOMAIN s] :
        /\ \A a, b \in DOMAIN s : a # b => p[a] # p[b]
        /\ \A a, b \in DOMAIN s : a < b => s[p[a]] >= s[p[b]]}

\* bcur.iou(other) of two shapes; a shape coincides with itself
Iou(a, b) == IF a = b THEN One ELSE geom[{a, b}]

\* ------------------------------------------------- nms2d_cuda_templated

nboxes == Size(boxes_masked)

nblocks == divup(nboxes, FLAG_WIDTH)

\* the value torch::zeros puts into every cell of iou_coeffs
CoeffInit == 0

\* dim3 blocks(nblocks, nblocks): the thread blocks <<blockIdx.y, blockIdx.x>>
Blocks == Range(nblocks) \X Range(nblocks)

\* ------------------------------------------------------ nms2d_iou_kernel

row_size(row_start) == min(nboxes - row_start * FLAG_WIDTH, FLAG_WIDTH)

\* mutant: the width of a column tile is not clamped to the number of shapes
col_sizeFull(col_start) == FLAG_WIDTH

col_size(col_start) == min(nboxes - col_start * FLAG_WIDTH, FLAG_WIDTH)

\* block_boxes[i] after the barrier: the shape at sorted position
\* (col_start << FLAG_BITS) + i
block_boxes(col_start, i) == boxes_masked[order[col_start * FLAG_WIDTH + i]]

\* mutant: the row shape is fetched without the indirection through order_
bcurNoOrder(row_start, t) == boxes_masked[row_start * FLAG_WIDTH + t]

\* bcur of thread t of row tile row_start
bcur(row_start, t) == boxes_masked[order[row_start * FLAG_WIDTH + t]]

\* mutant: iou >= iou_threshold
OverlapsGe(iou) == iou >= iou_threshold

\* the test iou > iou_threshold
Overlaps(iou) == iou > iou_threshold

\* mutant: the loop of a diagonal block starts at threadIdx.x, not after it
ThreadLoopInclusive(row_start, col_start, t) ==
    (IF row_start = col_start THEN t ELSE 0) .. (col_size(col_start) - 1)

\* mutant: the loop of a diagonal block starts at 0 as well
ThreadLoopFromZero(row_start, col_start, t) == 0 .. (col_size(col_start) - 1)

\* the values of the loop variable i of thread t
ThreadLoop(row_start, col_start, t) ==
    LET start == IF row_start = col_start THEN t + 1 ELSE 0
    IN  start .. (col_size(col_start) - 1)

\* flag when the loop ends
ThreadFlag(row_start, col_start, t) ==
    {i \in ThreadLoop(row_start, col_start, t) :
        Overlaps(Iou(bcur(row_start, t), block_boxes(col_start, i)))}

\* the threads of a block that pass the test threadIdx.x < row_size
ActiveThreads(row_start) ==
    {t \in Range(FLAG_WIDTH) : t < row_size(row_start)}

\* mutant: the switch of line 56 multiplies in HARD mode as well
ThreadCoeffCellsAnyMode(row_start, col_start, t) ==
    {<<row_start * FLAG_WIDTH + t, i>> :
        i \in ThreadLoop(row_start, col_start, t)}

\* the cells <<row, column>> of iou_coeffs_ that thread t multiplies into
ThreadCoeffCells(row_start, col_start, t) ==
    IF supression_type = "HARD" THEN {}
    ELSE {<<row_start * FLAG_WIDTH + t, i>> :
             i \in ThreadLoop(row_start, col_start, t)}

BlockCoeffCells(row_start, col_start) ==
    UNION {ThreadCoeffCells(row_start, col_start, t) :
              t \in ActiveThreads(row_start)}

\* the factor that the thread of row cell[1] multiplies into cell
CellFactor(col_start, cell) ==
    DecayFactor(supression_type,
                Iou(bcur(cell[1] \div FLAG_WIDTH, cell[1] % FLAG_WIDTH),
                    block_boxes(col_start, cell[2])),
                supression_param)

\* the execution units <<row tile, column tile, thread>> of the finished
\* blocks that passed both tests (lines 27 and 42) and did their writes
WritingUnits ==
    {u \in Range(nblocks) \X Range(nblocks) \X Range(FLAG_WIDTH) :
        /\ <<u[1], u[2]>> \in blocksDone
        /\ u[1] <= u[2]
        /\ u[3] \in ActiveThreads(u[1])}

\* those that have written mask_[idx][col] (line 66)
MaskWriters(idx, col) ==
    {u \in WritingUnits : u[1] * FLAG_WIDTH + u[3] = idx /\ u[2] = col}

\* those that have multiplied into iou_coeffs_[r][c] (lines 59 and 62)
CoeffWriters(r, c) ==
    {u \in WritingUnits : <<r, c>> \in ThreadCoeffCells(u[1], u[2], u[3])}

\* One thread block <<row_start, col_start>> runs to completion. Its threads
\* write different rows of mask_ and iou_coeffs_, so their interleaving inside
\* the block does not show; blocks interleave freely. iou_coeffs_[idx][i] *= f
\* is a read and a write: when another block has written the cell, the read
\* may or may not have seen that write (lost).
IouBlock(row_start, col_start) ==
    /\ pc = "iou"
    /\ <<row_start, col_start>> \in Blocks \ blocksDone
    /\ blocksDone' = blocksDone \cup {<<row_start, col_start>>}
    /\ IF row_start > col_start
       THEN UNCHANGED <<mask, iou_coeffs>>
       ELSE LET rows == {row_start * FLAG_WIDTH + t : t \in ActiveThreads(row_start)}
                cells == BlockCoeffCells(row_start, col_start)
                raced == {c \in cells : CoeffWriters(c[1], c[2]) # {}}
            IN  /\ mask' = [idx \in DOMAIN mask |->
                     IF idx \in rows
                     THEN [mask[idx] EXCEPT ![col_start] =
                             ThreadFlag(row_start, col_start, idx % FLAG_WIDTH)]
                     ELSE mask[idx]]
                /\ \E lost \in SUBSET raced :
                     iou_coeffs' = [r \in DOMAIN iou_coeffs |->
                       [c \in DOMAIN iou_coeffs[r] |->
                         IF <<r, c>> \in cells
                         THEN Mul(IF <<r, c>> \in lost THEN CoeffInit
                                  ELSE iou_coeffs[r][c],
                                  CellFactor(col_start, <<r, c>>))
                         ELSE iou_coeffs[r][c]]]
    /\ UNCHANGED <<inputs, pc, boxes_masked, scores_masked, order, suppressed,
                   remv, ci, round, memo, threads>>

\* ---------------------------------------------------- nms_collect_kernel

\* mutant: the bit is looked up in word 0 instead of word block_idx
AlreadySuppressedWord0(i) == (i % FLAG_WIDTH) \in remv[0]

\* remv_[block_idx] & (1ULL << thread_idx)
AlreadySuppressed(i) == (i % FLAG_WIDTH) \in remv[i \div FLAG_WIDTH]

\* mutant: the else of line 90 is missing, the loop over j runs for every i
ContributesAlways(i) == TRUE

\* the loop over j runs in the else branch of the test of line 88
Contributes(i) == ~AlreadySuppressed(i)

\* mutant: the flag is stored at the sorted position
MarkIndexPosition(i) == i

\* the index of suppressed_ that iteration i marks
MarkIndex(i) == order[i]

\* mutant: the loop over the words starts after the word of i
FirstWordNext(i) == (i \div FLAG_WIDTH) + 1

\* the first value of j: block_idx
FirstWord(i) == i \div FLAG_WIDTH

\* mutant: remv_[j] = mask_[i][j]
HardWordAssign(i, j) == mask[i][j]

\* remv_[j] after remv_[j] |= mask_[i][j]
HardWord(i, j) == remv[j] \cup mask[i][j]

\* the bits k of word j that pass both tests of the soft loop
SoftTargets(i, j) == {k \in Range(FLAG_WIDTH) : k \in mask[i][j] /\ k \notin remv[j]}

\* mutant: the complement of the coefficient is added to the score
DecayedScoreAdd(i, i2) == scores_masked[i2] + (One - iou_coeffs[i][i2])

\* scores_[i2] after scores_[i2] *= iou_coeffs_[i][i2]
DecayedScore(i, i2) == Mul(scores_masked[i2], iou_coeffs[i][i2])

\* remv_[j] after the loop over k
SoftWord(i, j) ==
    remv[j] \cup {k \in SoftTargets(i, j) :
                    DecayedScore(i, j * FLAG_WIDTH + k) < score_threshold}

\* one iteration of the outer loop, for i = ci
CollectIter ==
    /\ pc = "collect"
    /\ ci < nboxes
    /\ ci' = ci + 1
    /\ LET block_idx == FirstWord(ci)
       IN  /\ suppressed' = IF AlreadySuppressed(ci)
                            THEN [suppressed EXCEPT ![MarkIndex(ci)] = TRUE]
                            ELSE suppressed
           /\ IF ~Contributes(ci)
              THEN UNCHANGED <<remv, scores_masked>>
              ELSE IF supression_type = "HARD"
              THEN /\ remv' = [j \in DOMAIN remv |->
                        IF j >= block_idx THEN HardWord(ci, j) ELSE remv[j]]
                   /\ UNCHANGED scores_masked
              ELSE /\ scores_masked' = [i2 \in DOMAIN scores_masked |->
                        IF /\ i2 \div FLAG_WIDTH >= block_idx
                           /\ i2 % FLAG_WIDTH \in SoftTargets(ci, i2 \div FLAG_WIDTH)
                        THEN DecayedScore(ci, i2)
                        ELSE scores_masked[i2]]
                   /\ remv' = [j \in DOMAIN remv |->
                        IF j >= block_idx THEN SoftWord(ci, j) ELSE remv[j]]
    /\ UNCHANGED <<inputs, pc, boxes_masked, order, mask, iou_coeffs,
                   blocksDone, round, memo, threads>>

\* ------------------------------------------------------------ nms2d_cuda

\* mutant: scores >= score_threshold
ScoreMaskGe == [k \in DOMAIN scores |-> scores[k] >= score_threshold]

\* score_mask = scores > score_threshold
ScoreMask == [k \in DOMAIN scores |-> scores[k] > score_threshold]

\* lines 162-166 and 118-132: filter, sort, allocate, launch the grid (a grid
\* of nblocks = 0 launches no block)
Call ==
    /\ pc = "call"
    /\ LET score_mask == ScoreMask
           bm == Index(boxes, score_mask)
           sm == Index(scores, score_mask)
           n == Size(bm)
           nb == divup(n, FLAG_WIDTH)
           nc == IF supression_type = "HARD" THEN 0 ELSE n
       IN  /\ boxes_masked' = bm
           /\ scores_masked' = sm
           /\ order' \in Argsort(sm)
           /\ suppressed' = Zeros1(n, FALSE)
           /\ mask' = Zeros2(n, nb, {})
           /\ iou_coeffs' = Zeros2(nc, nc, CoeffInit)
    /\ blocksDone' = {}
    /\ pc' = "iou"
    /\ UNCHANGED <<inputs, remv, ci, round, memo, threads>>

\* mutant: the collect kernel is launched on a stream of its own and may start
\* while blocks of the grid are still running
GridLaunched == TRUE

\* both kernels are launched on the same stream: the second starts when every
\* block of the first has finished
GridFinished == blocksDone = Blocks

\* lines 144-153: remv is allocated and the collect kernel starts
LaunchCollect ==
    /\ pc = "iou"
    /\ GridFinished
    /\ remv' = Zeros1(nblocks, {})
    /\ ci' = 0
    /\ pc' = "collect"
    /\ UNCHANGED <<inputs, boxes_masked, scores_masked, order, suppressed, mask,
                   iou_coeffs, blocksDone, round, memo, threads>>

\* the loop of the collect kernel ends and nms2d_cuda returns suppressed
Return ==
    /\ pc = "collect"
    /\ ci = nboxes
    /\ pc' = "done"
    /\ UNCHANGED <<inputs, tensors, blocksDone, ci, round, memo, threads>>

\* --------------------------------------------------------- specification

NoMemo == [kind |-> "none", flag |-> FALSE]

\* no block is running at the level of its threads
NoBlock == << >>

\* an unwritten slot of block_boxes (shapes are named from 1)
Uninit == 0

Idle == [t \in Range(FLAG_WIDTH) |-> "idle"]

NoSlots == [i \in Range(FLAG_WIDTH) |-> Uninit]

NoLoop == [t \in Range(FLAG_WIDTH) |-> 0]

NoFlags == [t \in Range(FLAG_WIDTH) |-> {}]

InitRun ==
    /\ pc = "call"
    /\ boxes_masked = << >>
    /\ scores_masked = << >>
    /\ order = << >>
    /\ suppressed = << >>
    /\ mask = << >>
    /\ iou_coeffs = << >>
    /\ remv = << >>
    /\ blocksDone = {}
    /\ ci = 0
    /\ round = 1
    /\ memo = NoMemo
    /\ cur = NoBlock
    /\ tpc = Idle
    /\ block_slots = NoSlots
    /\ ti = NoLoop
    /\ tflag = NoFlags

InitParams(params) ==
    /\ supression_type \in Modes
    /\ iou_threshold \in IouThreshVals
    /\ score_threshold \in ScoreThreshVals
    /\ supression_param \in params

Init ==
    /\ \E n \in 0 .. MaxN :
         /\ boxes = [k \in Range(n) |-> k + 1]
         /\ scores \in [Range(n) -> ScoreVals]
         /\ geom \in [Pairs(1 .. n) -> IouVals]
    /\ InitParams(ParamVals)
    /\ InitRun

Next ==
    \/ Call
    \/ \E b \in Blocks : IouBlock(b[1], b[2])
    \/ LaunchCollect
    \/ CollectIter
    \/ Return

Spec == Init /\ [][Next]_vars

\* ------------------------------------------------------ a second call

\* scores.index({score_mask}) of the current call, as given on input
InputScores == Index(scores, ScoreMask)

\* the IoU table of the shapes of b, named 1, 2, ... in the order of b
GeomOf(b) ==
    [pr \in Pairs(1 .. Size(b)) |-> geom[{b[x - 1] : x \in pr}]]

\* A second call on the shapes b with the scores s. Which name a shape has
\* does not matter, so the shapes are named anew; the tensors of the first
\* call are needed no more.
Restart(b, s, m) ==
    /\ boxes' = [k \in DOMAIN b |-> k + 1]
    /\ scores' = s
    /\ geom' = GeomOf(b)
    /\ memo' = m
    /\ round' = 2
    /\ pc' = "call"
    /\ boxes_masked' = << >>
    /\ scores_masked' = << >>
    /\ order' = << >>
    /\ suppressed' = << >>
    /\ mask' = << >>
    /\ iou_coeffs' = << >>
    /\ remv' = << >>
    /\ blocksDone' = {}
    /\ ci' = 0
    /\ UNCHANGED <<supression_type, iou_threshold, score_threshold,
                   supression_param, threads>>

\* The caller runs nms2d_cuda again on the shapes the first call kept (those
\* whose flag is false), with their scores and the same parameters (the
\* re-run of the idempotence property, which is about HARD mode).
RerunKept ==
    /\ pc = "done"
    /\ round = 1
    /\ supression_type = "HARD"
    /\ LET keep == [k \in DOMAIN suppressed |-> ~suppressed[k]]
       IN  Restart(Index(boxes_masked, keep), Index(InputScores, keep),
                   [kind |-> "kept",
                    flag |-> \E k \in DOMAIN suppressed : suppressed[k]])

\* The caller runs nms2d_cuda again on the shapes at the sorted positions
\* 0..i of the first call, listed in that order, with their scores and the
\* same parameters, and remembers the flag of the shape at position i.
RerunPrefix(i) ==
    /\ pc = "done"
    /\ round = 1
    /\ i \in Range(nboxes)
    /\ Restart([k \in 0 .. i |-> boxes_masked[order[k]]],
               [k \in 0 .. i |-> InputScores[order[k]]],
               [kind |-> "prefix", flag |-> suppressed[order[i]]])

NextKept ==
    \/ Next
    \/ RerunKept

SpecKept == Init /\ [][NextKept]_vars

NextPrefix ==
    \/ Next
    \/ \E i \in Range(MaxN) : RerunPrefix(i)

SpecPrefix == Init /\ [][NextPrefix]_vars

\* ------------------------------------------------ a grid of full tiles

\* More than one full tile: equal scores, one IoU for all pairs.
InitGrid ==
    /\ \E n \in 0 .. GridMaxN :
         /\ boxes = [k \in Range(n) |-> k + 1]
         /\ scores = [k \in Range(n) |-> One]
         /\ \E v \in GridIouVals : geom = [pr \in Pairs(1 .. n) |-> v]
    /\ InitParams(GridParamVals)
    /\ InitRun

SpecGrid == InitGrid /\ [][Next]_vars

\* ------------------------------------- one thread block, thread by thread

\* The threads of a block as separate processes. The blocks of the grid run
\* one after the other here: block_boxes is private to a block and
\* __syncthreads() synchronises the threads of one block only.

Threads == Range(FLAG_WIDTH)

\* the block is scheduled; its shared memory holds nothing it has written
StartBlock(row_start, col_start) ==
    /\ pc = "iou"
    /\ cur = NoBlock
    /\ <<row_start, col_start>> \in Blocks \ blocksDone
    /\ cur' = <<row_start, col_start>>
    /\ tpc' = [t \in Threads |-> "start"]
    /\ block_slots' = NoSlots
    /\ ti' = NoLoop
    /\ tflag' = NoFlags
    /\ UNCHANGED <<inputs, pc, tensors, blocksDone, ci, round, memo>>

\* lines 25-27: a thread of a block below the diagonal returns
ThreadStart(t) ==
    /\ cur # NoBlock
    /\ tpc[t] = "start"
    /\ tpc' = [tpc EXCEPT ![t] = IF cur[1] > cur[2] THEN "exit" ELSE "load"]
    /\ UNCHANGED <<inputs, pc, tensors, blocksDone, ci, round, memo, cur,
                   block_slots, ti, tflag>>

\* lines 34-38: thread t caches the shape at position (col_start << FLAG_BITS) + t
ThreadLoad(t) ==
    /\ cur # NoBlock
    /\ tpc[t] = "load"
    /\ block_slots' = IF t < col_size(cur[2])
                      THEN [block_slots EXCEPT ![t] = block_boxes(cur[2], t)]
                      ELSE block_slots
    /\ tpc' = [tpc EXCEPT ![t] = "barrier"]
    /\ UNCHANGED <<inputs, pc, tensors, blocksDone, ci, round, memo, cur, ti,
                   tflag>>

\* mutant: no __syncthreads() between the load and the loop
BarrierMissing == TRUE

\* __syncthreads(): every thread of the block has arrived
BarrierOpen == \A u \in Threads : tpc[u] \in {"barrier", "loop", "done"}

\* the first value of the loop variable (line 49)
LoopStart(t) == IF cur[1] = cur[2] THEN t + 1 ELSE 0

\* lines 39-49: thread t leaves the barrier; a thread below row_size enters
\* the loop with an empty flag
ThreadBarrier(t) ==
    /\ cur # NoBlock
    /\ tpc[t] = "barrier"
    /\ BarrierOpen
    /\ IF t < row_size(cur[1])
       THEN /\ tpc' = [tpc EXCEPT ![t] = "loop"]
            /\ ti' = [ti EXCEPT ![t] = LoopStart(t)]
       ELSE /\ tpc' = [tpc EXCEPT ![t] = "done"]
            /\ UNCHANGED ti
    /\ UNCHANGED <<inputs, pc, tensors, blocksDone, ci, round, memo, cur,
                   block_slots, tflag>>

\* what a read of block_boxes[i] yields: the shape written there, or, for a
\* slot nobody has written, any shape (the old contents of shared memory)
SlotRead(i) ==
    IF block_slots[i] = Uninit
    THEN {boxes_masked[k] : k \in DOMAIN boxes_masked}
    ELSE {block_slots[i]}

\* lines 50-65: one iteration of the loop of thread t
ThreadIter(t) ==
    /\ cur # NoBlock
    /\ tpc[t] = "loop"
    /\ ti[t] < col_size(cur[2])
    /\ \E other \in SlotRead(ti[t]) :
         LET idx == cur[1] * FLAG_WIDTH + t
             iou == Iou(bcur(cur[1], t), other)
         IN  /\ tflag' = [tflag EXCEPT ![t] =
                    IF Overlaps(iou) THEN @ \cup {ti[t]} ELSE @]
             /\ iou_coeffs' =
                    IF supression_type = "HARD" THEN iou_coeffs
                    ELSE [iou_coeffs EXCEPT ![idx][ti[t]] =
                            Mul(@, DecayFactor(supression_type, iou,
                                               supression_param))]
    /\ ti' = [ti EXCEPT ![t] = @ + 1]
    /\ UNCHANGED <<inputs, pc, boxes_masked, scores_masked, order, suppressed,
                   mask, remv, blocksDone, ci, round, memo, cur, tpc,
                   block_slots>>

\* line 66: the loop has ended, thread t stores its flag
ThreadStore(t) ==
    /\ cur # NoBlock
    /\ tpc[t] = "loop"
    /\ ti[t] >= col_size(cur[2])
    /\ mask' = [mask EXCEPT ![cur[1] * FLAG_WIDTH + t][cur[2]] = tflag[t]]
    /\ tpc' = [tpc EXCEPT ![t] = "done"]
    /\ UNCHANGED <<inputs, pc, boxes_masked, scores_masked, order, suppressed,
                   iou_coeffs, remv, blocksDone, ci, round, memo, cur,
                   block_slots, ti, tflag>>

\* every thread of the block has returned
FinishBlock ==
    /\ cur # NoBlock
    /\ \A t \in Threads : tpc[t] \in {"done", "exit"}
    /\ blocksDone' = blocksDone \cup {cur}
    /\ cur' = NoBlock
    /\ tpc' = Idle
    /\ block_slots' = NoSlots
    /\ ti' = NoLoop
    /\ tflag' = NoFlags
    /\ UNCHANGED <<inputs, pc, tensors, ci, round, memo>>

\* survivors with different scores, rising or falling, and one IoU for all
\* pairs
InitBlock ==
    /\ \E n \in 0 .. GridMaxN :
         /\ boxes = [k \in Range(n) |-> k + 1]
         /\ \E up \in BOOLEAN :
              scores = [k \in Range(n) |-> IF up THEN One + k ELSE One - k]
         /\ \E v \in GridIouVals : geom = [pr \in Pairs(1 .. n) |-> v]
    /\ InitParams(ParamVals)
    /\ InitRun

NextBlock ==
    \/ Call
    \/ \E b \in Blocks : StartBlock(b[1], b[2])
    \/ \E t \in Threads : ThreadStart(t)
    \/ \E t \in Threads : ThreadLoad(t)
    \/ \E t \in Threads : ThreadBarrier(t)
    \/ \E t \in Threads : ThreadIter(t)
    \/ \E t \in Threads : ThreadStore(t)
    \/ FinishBlock
    \/ LaunchCollect

SpecBlock == InitBlock /\ [][NextBlock]_vars

\* ================================================================ claims

\* the shape at sorted position j
ShapeAt(j) == boxes_masked[order[j]]

\* the flag returned for the shape at sorted position j
Flagged(j) == suppressed[order[j]]

\* the greedy reference: the shape at sorted position j is kept iff no kept
\* shape at an earlier position overlaps it beyond iou_threshold
RECURSIVE GreedyKept(_)
GreedyKept(j) ==
    \A i \in Range(j) :
        ~(GreedyKept(i) /\ Iou(ShapeAt(i), ShapeAt(j)) > iou_threshold)

\* C1: in HARD mode, when the collect kernel has finished, the shape at
\* sorted position j is flagged iff an earlier, unsuppressed position i has
\* IoU(i, j) > iou_threshold (greedy NMS); a suppressed shape suppresses none.
C1_HardGreedy ==
    (pc = "done" /\ supression_type = "HARD") =>
        \A j \in Range(nboxes) : Flagged(j) = ~GreedyKept(j)

\* C1 witness: three survivors in two tiles; position 1 is suppressed by
\* position 0 and overlaps position 2, which is kept all the same.
C1_Witness ==
    /\ pc = "done"
    /\ supression_type = "HARD"
    /\ round = 1
    /\ nboxes = 3
    /\ Iou(ShapeAt(0), ShapeAt(1)) > iou_threshold
    /\ Iou(ShapeAt(1), ShapeAt(2)) > iou_threshold
    /\ Iou(ShapeAt(0), ShapeAt(2)) <= iou_threshold
    /\ ~Flagged(0) /\ Flagged(1) /\ ~Flagged(2)

\* a surviving shape (index k of the filtered tensors) that overlaps no
\* other surviving shape beyond iou_threshold
Isolated(k) ==
    \A l \in DOMAIN boxes_masked \ {k} :
        Iou(boxes_masked[k], boxes_masked[l]) <= iou_threshold

\* C2: in every mode and every state, an isolated surviving shape is not
\* flagged suppressed.
C2_Isolation ==
    \A k \in DOMAIN suppressed : Isolated(k) => ~suppressed[k]

\* C2 witness: a soft run of three survivors that flagged a shape and left
\* the isolated shape at the last sorted position unflagged.
C2_Witness ==
    /\ pc = "done"
    /\ supression_type = "GAUSSIAN"
    /\ nboxes = 3
    /\ Isolated(order[2]) /\ ~suppressed[order[2]]
    /\ suppressed[order[1]]

\* C3: the flag of the shape at sorted position i does not depend on the
\* shapes at later positions: a second call on the shapes at positions 0..i
\* alone, sorted into the same order, returns the same flag for it as the
\* first call did. (Two calls that agree on positions 0..i both agree with
\* this call, hence with each other.) In every mode.
C3_PrefixDecides ==
    (/\ pc = "done" /\ round = 2 /\ memo.kind = "prefix"
     /\ \A k \in DOMAIN order : order[k] = k) =>
        Flagged(nboxes - 1) = memo.flag

\* C3 witness: a soft second call on a prefix of two shapes whose last
\* shape was flagged by the first call.
C3_Witness ==
    /\ pc = "done" /\ round = 2 /\ memo.kind = "prefix"
    /\ \A k \in DOMAIN order : order[k] = k
    /\ supression_type = "LINEAR"
    /\ nboxes = 2
    /\ memo.flag

\* C4: in HARD mode a second call on exactly the shapes the first call
\* kept, with the same thresholds, flags none of them.
C4_HardIdempotent ==
    (/\ pc = "done" /\ round = 2 /\ memo.kind = "kept"
     /\ supression_type = "HARD") =>
        \A k \in DOMAIN suppressed : ~suppressed[k]

\* C4 witness: the first call suppressed a shape and kept two.
C4_Witness ==
    /\ pc = "done" /\ round = 2 /\ memo.kind = "kept"
    /\ supression_type = "HARD"
    /\ memo.flag
    /\ nboxes = 2

\* the collect kernel is running or has finished in a soft mode
SoftPass == supression_type # "HARD" /\ pc \in {"collect", "done"}

\* C5 as claimed: in the soft modes every entry of the running score array
\* is, at every step of the pass and at its end, at most its input value,
\* negative scores included.
C5_MonotoneDecay ==
    SoftPass =>
        \A k \in DOMAIN scores_masked : scores_masked[k] <= InputScores[k]

\* C5 amended: the same for every entry whose input value is not negative.
C5_MonotoneDecayNonNegative ==
    SoftPass =>
        \A k \in DOMAIN scores_masked :
            InputScores[k] >= 0 => scores_masked[k] <= InputScores[k]

\* C5 witness: a soft pass has decayed an entry with a positive input value.
C5_Witness ==
    /\ SoftPass
    /\ pc = "done"
    /\ \E k \in DOMAIN scores_masked :
         InputScores[k] > 0 /\ scores_masked[k] < InputScores[k]

\* C6: no step of the collect kernel clears a set bit of remv_ or resets a
\* true entry of suppressed_, in all three modes.
C6_MonotoneState ==
    [][pc = "collect" =>
         /\ \A j \in DOMAIN remv : remv[j] \subseteq remv'[j]
         /\ \A k \in DOMAIN suppressed : suppressed[k] => suppressed'[k]]_vars

\* C6 witness: the pass has set an accumulator bit in the second word and a
\* flag, and has an iteration left.
C6_Witness ==
    /\ pc = "collect"
    /\ ci < nboxes
    /\ nblocks = 2
    /\ remv[1] # {}
    /\ \E k \in DOMAIN suppressed : suppressed[k]

\* C7 as claimed: entry i of the returned tensor tells whether the shape at
\* sorted position i is suppressed (its accumulator bit is set).
C7_KeyedByPosition ==
    pc = "done" => \A i \in Range(nboxes) : suppressed[i] = AlreadySuppressed(i)

\* C7 amended: entry order_[i] of the returned tensor tells whether the
\* shape at sorted position i is suppressed: the flags are keyed by the index
\* of the shape in the score-filtered tensors.
C7_KeyedByFilteredIndex ==
    pc = "done" =>
        \A i \in Range(nboxes) : suppressed[order[i]] = AlreadySuppressed(i)

\* C7 witness: a suppressed shape whose sorted position differs from its
\* index in the filtered tensors.
C7_Witness ==
    /\ pc = "done"
    /\ nboxes = 3
    /\ \E i \in Range(nboxes) :
         order[i] # i /\ AlreadySuppressed(i) /\ ~AlreadySuppressed(order[i])

\* the input score of a shape
ShapeScore(id) == scores[CHOOSE n \in DOMAIN boxes : boxes[n] = id]

\* C8: the call works on exactly the M input shapes with score >
\* score_threshold and returns M flags (no remapping to the N inputs); the
\* sorted order has non-increasing score; for M = 0 every tensor is empty, so
\* that nothing is written.
C8_FilteredOutput ==
    pc # "call" =>
        LET pass == {n \in DOMAIN scores : scores[n] > score_threshold}
            M == Cardinality(pass)
        IN  /\ DOMAIN suppressed = Range(M)
            /\ DOMAIN boxes_masked = Range(M)
            /\ DOMAIN scores_masked = Range(M)
            /\ {boxes_masked[k] : k \in Range(M)} = {boxes[n] : n \in pass}
            /\ {order[k] : k \in DOMAIN order} = Range(M)
            /\ DOMAIN order = Range(M)
            /\ \A a, b \in Range(M) :
                 a < b => ShapeScore(ShapeAt(a)) >= ShapeScore(ShapeAt(b))
            /\ M = 0 =>
                 /\ suppressed = << >> /\ mask = << >> /\ iou_coeffs = << >>
                 /\ remv = << >> /\ scores_masked = << >>
                 /\ Blocks = {} /\ ci = 0

\* C8 witness: the call returned two flags for three inputs, one of which
\* scored exactly score_threshold.
C8_Witness ==
    /\ pc = "done"
    /\ Size(boxes) = 3
    /\ Size(suppressed) = 2
    /\ \E n \in DOMAIN scores : scores[n] = score_threshold

\* C9 as claimed: in LINEAR mode an iteration for an unsuppressed position i
\* multiplies the running score of every later, not yet suppressed position
\* j whose overlap bit is set by exactly 1 - IoU(i, j)^p, and sets the
\* accumulator bit of j iff the decayed score is below score_threshold.
C9_LinearDecayStep ==
    [][(/\ pc = "collect" /\ supression_type = "LINEAR"
        /\ ci < nboxes /\ ~AlreadySuppressed(ci)) =>
         \A j \in Range(nboxes) :
            (/\ j > ci
             /\ (j % FLAG_WIDTH) \in mask[ci][j \div FLAG_WIDTH]
             /\ ~AlreadySuppressed(j)) =>
               LET d == Mul(scores_masked[j],
                            LinearDecay(Iou(ShapeAt(ci), ShapeAt(j)),
                                        supression_param))
               IN  /\ scores_masked'[j] = d
                   /\ ((j % FLAG_WIDTH) \in remv'[j \div FLAG_WIDTH])
                        <=> (d < score_threshold)]_vars

\* C10 as claimed: no cell of mask_ and no cell of iou_coeffs_ is written by
\* two different execution units <<row tile, column tile, thread>>.
C10_DisjointWriters ==
    /\ \A r \in DOMAIN mask : \A c \in DOMAIN mask[r] :
         Cardinality(MaskWriters(r, c)) <= 1
    /\ \A r \in DOMAIN iou_coeffs : \A c \in DOMAIN iou_coeffs[r] :
         Cardinality(CoeffWriters(r, c)) <= 1

\* C11: the collect kernel takes no step before every thread block of the
\* grid has finished, and no step of it changes mask_, iou_coeffs_ (or order_
\* and the shapes): in phase 2 only remv_, scores_ and suppressed_ change.
C11_PhaseBarrier ==
    [][/\ pc' \in {"collect", "done"} => blocksDone' = Blocks'
       /\ pc = "collect" =>
            UNCHANGED <<mask, iou_coeffs, order, boxes_masked, blocksDone>>]_vars

\* C11 witness: a soft pass over two tiles that has read overlap bits and
\* changed remv_, scores_ and suppressed_.
C11_Witness ==
    /\ pc = "done"
    /\ supression_type = "LINEAR"
    /\ nblocks = 2
    /\ blocksDone = Blocks
    /\ remv[1] # {}
    /\ scores_masked # InputScores
    /\ \E k \in DOMAIN suppressed : suppressed[k]

\* the overlap bit of the pair of sorted positions <<i, j>>
MaskBit(i, j) == (j % FLAG_WIDTH) \in mask[i][j \div FLAG_WIDTH]

\* C12: when the grid has finished, bit k of mask_[i][c] is set iff the
\* position j = c * FLAG_WIDTH + k is below M, j > i and the shapes at sorted
\* positions i and j have IoU > iou_threshold; so no bit is set for j <= i,
\* for a tile below the diagonal or for a position >= M of the last tile.
C12_MaskContents ==
    pc \in {"collect", "done"} =>
        \A i \in Range(nboxes) : \A c \in Range(nblocks) :
            \A k \in Range(FLAG_WIDTH) :
                LET j == c * FLAG_WIDTH + k
                IN  (k \in mask[i][c]) <=>
                        /\ j < nboxes
                        /\ j > i
                        /\ Iou(ShapeAt(i), ShapeAt(j)) > iou_threshold

\* C12 witness: three survivors in two tiles, not in input order; position 0
\* overlaps position 2 of the partial last tile but not position 1.
C12_Witness ==
    /\ pc = "collect"
    /\ nboxes = 3
    /\ order[0] # 0
    /\ MaskBit(0, 2)
    /\ ~MaskBit(0, 1)
    /\ MaskBit(1, 2)
    /\ mask[2] = [c \in Range(nblocks) |-> {}]

\* C13 as claimed: in the soft modes, when the grid has finished, the cell of
\* iou_coeffs_ at row i and global column j, for sorted positions i < j, holds
\* 1.0 times the decay factor of the IoU of the shapes at i and j (so 1.0 for
\* IoU 0), also when there are several column tiles.
C13_CoeffContents ==
    (pc \in {"collect", "done"} /\ supression_type # "HARD") =>
        \A i, j \in Range(nboxes) :
            i < j =>
                iou_coeffs[i][j] =
                    Mul(One, DecayFactor(supression_type,
                                         Iou(ShapeAt(i), ShapeAt(j)),
                                         supression_param))

\* the sorted positions j whose score iteration i of a soft pass decays: the
\* overlap bit of <<i, j>> is set and j is not yet suppressed
DecayTargets(i) ==
    {j \in Range(nboxes) :
        /\ j \div FLAG_WIDTH >= FirstWord(i)
        /\ (j % FLAG_WIDTH) \in SoftTargets(i, j \div FLAG_WIDTH)}

\* C14 as claimed: in the soft modes, the score that an iteration decays and
\* compares with score_threshold for the target position j is the score of
\* the shape at sorted position j, the entry order_[j] of the score array,
\* whatever permutation order_ is; no other entry changes.
C14_DecaysScoreOfTarget ==
    [][(/\ pc = "collect" /\ supression_type # "HARD"
        /\ ci < nboxes /\ ~AlreadySuppressed(ci)) =>
         /\ \A j \in DecayTargets(ci) :
              LET d == Mul(scores_masked[order[j]], iou_coeffs[ci][j])
              IN  /\ scores_masked'[order[j]] = d
                  /\ AlreadySuppressed(j)' <=> (d < score_threshold)
         /\ \A k \in DOMAIN scores_masked :
              k \notin {order[j] : j \in DecayTargets(ci)} =>
                  scores_masked'[k] = scores_masked[k]]_vars

\* C15: an iteration that finds the accumulator bit of its position i set
\* only sets the output flag of that shape: remv_ and scores_ (and every
\* other tensor) are left unchanged by it, in hard and soft modes.
C15_SuppressedContributesNothing ==
    [][(pc = "collect" /\ ci < nboxes /\ AlreadySuppressed(ci)) =>
         /\ remv' = remv
         /\ scores_masked' = scores_masked
         /\ suppressed' = [suppressed EXCEPT ![order[ci]] = TRUE]
         /\ UNCHANGED <<mask, iou_coeffs, order, boxes_masked>>]_vars

\* C15 witness: the pass has visited a suppressed position whose shape
\* overlaps a later position, and that later position is not suppressed.
C15_Witness ==
    /\ pc = "collect"
    /\ nboxes = 3
    /\ ci = 2
    /\ AlreadySuppressed(1)
    /\ Flagged(1)
    /\ MaskBit(1, 2)
    /\ ~AlreadySuppressed(2)

\* the slots of block_boxes that thread t has read so far
SlotsRead(t) ==
    IF tpc[t] \in {"loop", "done"} /\ t < row_size(cur[1])
    THEN LoopStart(t) .. (ti[t] - 1)
    ELSE {}

\* C16: in every thread block, under every interleaving of its threads: a
\* thread about to read block_boxes[i] finds there the shape that thread i
\* of the block has written (the shape at position col_start * FLAG_WIDTH +
\* i), only slots i < col_size are read or written, and if one thread has
\* returned at line 27 then no thread of the block is at the barrier or
\* beyond it.
C16_TileCacheBarrier ==
    cur # NoBlock =>
        /\ \A t \in Threads :
              (tpc[t] = "loop" /\ ti[t] < col_size(cur[2])) =>
                  /\ tpc[ti[t]] \in {"barrier", "loop", "done"}
                  /\ block_slots[ti[t]] = block_boxes(cur[2], ti[t])
        /\ \A t \in Threads : SlotsRead(t) \subseteq Range(col_size(cur[2]))
        /\ \A i \in Threads : block_slots[i] # Uninit => i < col_size(cur[2])
        /\ (\E t \in Threads : tpc[t] = "exit") =>
              \A t \in Threads : tpc[t] \in {"start", "exit"}

\* C16 witness: the block of the first row tile and the partial last column
\* tile, with the survivors not in input order: thread 1 has read slot 0 and
\* finished its loop while thread 0 is still about to read it; slot 1 is not
\* written.
C16_Witness ==
    /\ cur = <<0, 1>>
    /\ nboxes = 3
    /\ order[0] # 0
    /\ tpc[0] = "loop" /\ ti[0] = 0
    /\ tpc[1] = "loop" /\ SlotsRead(1) = {0}
    /\ block_slots[0] # Uninit
    /\ block_slots[1] = Uninit

\* C17: no iteration sets the accumulator bit of its own position or of an
\* earlier one, so that when the collect kernel ends the flags agree with the
\* final accumulator: suppressed_[order_[i]] is true iff the bit of sorted
\* position i is set in remv_.
C17_FlagsAgreeWithAccumulator ==
    [][/\ (pc = "collect" /\ ci < nboxes) =>
            \A j \in 0 .. ci : AlreadySuppressed(j)' = AlreadySuppressed(j)
       /\ pc' = "done" =>
            \A i \in Range(nboxes) : Flagged(i)' = AlreadySuppressed(i)']_vars

\* C17 witness: a finished soft pass over two tiles, the survivors not in
\* input order, with a flagged shape in each tile and a kept one.
C17_Witness ==
    /\ pc = "done"
    /\ supression_type = "GAUSSIAN"
    /\ nboxes = 3
    /\ order[2] # 2
    /\ ~Flagged(0) /\ Flagged(1) /\ Flagged(2)
    /\ AlreadySuppressed(1) /\ AlreadySuppressed(2)

\* the indices thread t of block <<row_start, col_start>> uses (lines 34-66)
KernelIndicesInRange(row_start, col_start, t) ==
    LET idx == row_start * FLAG_WIDTH + t
    IN  /\ t < col_size(col_start) =>
              /\ col_start * FLAG_WIDTH + t \in DOMAIN order
              /\ order[col_start * FLAG_WIDTH + t] \in DOMAIN boxes_masked
        /\ t \in ActiveThreads(row_start) =>
              /\ idx \in DOMAIN order
              /\ order[idx] \in DOMAIN boxes_masked
              /\ ThreadLoop(row_start, col_start, t) \subseteq Range(FLAG_WIDTH)
              /\ idx \in DOMAIN mask
              /\ col_start \in DOMAIN mask[idx]
              /\ \A cell \in ThreadCoeffCells(row_start, col_start, t) :
                    /\ cell[1] \in DOMAIN iou_coeffs
                    /\ cell[2] \in DOMAIN iou_coeffs[cell[1]]
                    /\ cell[1] \in Range(nboxes) /\ cell[2] \in Range(nboxes)

\* the indices iteration i of the collect kernel uses (lines 85-105)
CollectIndicesInRange(i) ==
    /\ FirstWord(i) \in DOMAIN remv
    /\ i \in DOMAIN order
    /\ MarkIndex(i) \in DOMAIN suppressed
    /\ i \in DOMAIN mask
    /\ \A j \in FirstWord(i) .. (nblocks - 1) :
          /\ j \in DOMAIN remv
          /\ j \in DOMAIN mask[i]
          /\ supression_type # "HARD" =>
                \A k \in mask[i][j] :
                    LET i2 == j * FLAG_WIDTH + k
                    IN  /\ i2 \in DOMAIN scores_masked
                        /\ i \in DOMAIN iou_coeffs
                        /\ i2 \in DOMAIN iou_coeffs[i]
                        /\ i2 \in Range(nboxes)

\* C18: for every M, a multiple of the tile width or not, every index the
\* two kernels use is in range (iou_coeffs_ rows and columns and scores_
\* positions below M, words of mask_ and remv_ below nblocks, order_ and
\* suppressed_ indices below M), and no accumulator bit of a position >= M
\* is ever set.
C18_IndexSafety ==
    /\ pc = "iou" =>
          \A b \in Blocks : \A t \in Range(FLAG_WIDTH) :
              b[1] <= b[2] => KernelIndicesInRange(b[1], b[2], t)
    /\ (pc = "collect" /\ ci < nboxes) => CollectIndicesInRange(ci)
    /\ pc \in {"collect", "done"} =>
          /\ DOMAIN remv = Range(nblocks)
          /\ \A j \in DOMAIN remv : \A k \in remv[j] :
                j * FLAG_WIDTH + k < nboxes

\* C18 witness: three survivors, a partial last tile, in a soft mode; the
\* bit of the last position is set and the last iteration is still to come.
C18_Witness ==
    /\ pc = "collect"
    /\ supression_type = "LINEAR"
    /\ nboxes = 3
    /\ ci = 2
    /\ remv[1] = {0}
    /\ MaskBit(0, 2)

\* C19: in HARD mode the coefficient matrix is empty and no thread block
\* multiplies into a cell of it, the score array stays as it was on input,
\* and after the allocation no step changes a tensor other than mask_, remv_
\* and suppressed_.
C19_HardFrame ==
    [][(supression_type = "HARD" /\ pc # "call") =>
         /\ iou_coeffs = << >>
         /\ \A b \in Blocks : BlockCoeffCells(b[1], b[2]) = {}
         /\ scores_masked = InputScores
         /\ UNCHANGED <<iou_coeffs, scores_masked, boxes_masked, order,
                        inputs>>]_vars

\* C19 witness: a finished HARD call on three survivors with different
\* scores that wrote mask_, remv_ and suppressed_.
C19_Witness ==
    /\ pc = "done"
    /\ supression_type = "HARD"
    /\ nboxes = 3
    /\ scores_masked[0] # scores_masked[1]
    /\ scores_masked = InputScores
    /\ iou_coeffs = << >>
    /\ MaskBit(0, 2)
    /\ remv[1] = {0}
    /\ Flagged(2)

====
